---- MODULE Spec2Model ----
(***************************************************************************)
(* Knowledge structuring and hybrid retrieval engine of BioForge:          *)
(* python-backend/services/rag_service.py and the routers that call it.    *)
(*                                                                         *)
(* These specifications share this module:                                 *)
(*   SpecRRF    RAGService._rrf_merge applied to bounded result lists      *)
(*   SpecChunk  RAGService._simple_split_text, one loop iteration per step *)
(*   Spec       the RAGService methods over the vector index and the BM25  *)
(*              sidecar corpora (SpecFaults: with failing queries)         *)
(*   SpecApp    the document handlers of api/routers/documents.py over     *)
(*              the relational store and both indexes (SpecAppFaults:      *)
(*              with failing index writes)                                 *)
(*   SpecKP     the knowledge-point handlers of                            *)
(*              api/routers/knowledge_points.py                            *)
(*   SpecHybrid the engine with hybrid mode on and no failing call         *)
(*   SpecRace   two ingestions side by side, one backend or file access    *)
(*              per step                                                   *)
(*   SpecLex    the lexical ranking of search_similar over score vectors   *)
(*   SpecFetch  search_similar over n_results around its thresholds        *)
(*   SpecDelete delete_document between additions, configuration changes   *)
(*              and restarts of the backend                                *)
(*   SpecRaceDelete  the delete endpoint beside a running ingestion        *)
(*   SpecTask   process_document_background, one commit per step           *)
(*              (SpecTaskFair: with a worker that keeps running)           *)
(***************************************************************************)
EXTENDS Integers, Sequences, FiniteSets, TLC

VARIABLES
    \* ---- _rrf_merge ----
    vector_results,   \* argument: formatted vector hits
    bm25_results,     \* argument: lexical hits
    merged,           \* return value
    rrf_pc,           \* "call" | "done"
    \* ---- _simple_split_text ----
    text, chunk_size, overlap,   \* arguments
    rag_config,                  \* <<chunkSize>> when the arguments are those
                                 \* RAGService made of its configuration, else <<>>
    chunks, start,               \* locals
    split_pc,                    \* "call" | "loop" | "done"
    \* ---- the engine ----
    chromadb,     \* the chromadb import succeeded: RAGService.client is set
    BM25Okapi,    \* the rank_bm25 import succeeded
    useHybrid,    \* "useHybrid" of the stored RAG configuration
    faults,       \* the kinds of backend call that may raise in this run
    vcolls,       \* vector backend: names of the existing collections
    vstore,       \* vector backend: entries of each collection, oldest first
    bm25,         \* one sidecar corpus file per collection: ids, documents
    call,         \* the last call: method or handler, arguments, outcome
    ret,          \* what that call returned
    \* ---- the relational store ----
    db_documents,         \* Document.processing_status by id, "absent" if no row
    db_knowledge_points,  \* KnowledgePoint rows by document_id, in insertion order
    db_processed,         \* Document.processed by id, FALSE if no row
    \* ---- ingestions running side by side ----
    ingest,       \* by document: the write it is at, the phase, the corpus in memory
    saved,        \* the corpus saves so far, oldest first: <<document, collection>>
    \* ---- the lexical part of search_similar ----
    bm25_scores,  \* what get_scores returned, one score per corpus entry
    lex_n,        \* n_results of the call
    lex_hits,     \* 1-based corpus positions of bm25_results, in order
    lex_pc        \* "call" before the ranking, "done" after it

rrfVars   == <<vector_results, bm25_results, merged, rrf_pc>>
chunkVars == <<text, chunk_size, overlap, rag_config, chunks, start, split_pc>>
cfgVars   == <<chromadb, BM25Okapi, useHybrid, faults>>
indexVars == <<vcolls, vstore, bm25>>
dbVars    == <<db_documents, db_knowledge_points, db_processed>>
raceVars  == <<ingest, saved>>
lexVars   == <<bm25_scores, lex_n, lex_hits, lex_pc>>
engVars   == <<cfgVars, indexVars, call, ret, dbVars, raceVars, lexVars>>
vars      == <<rrfVars, chunkVars, engVars>>

----------------------------------------------------------------------------
(* Generic helpers *)

Min(a, b) == IF a < b THEN a ELSE b
Max(a, b) == IF a > b THEN a ELSE b

SeqsUpTo(S, n) == UNION {[1..m -> S] : m \in 0..n}

\* Python s[a:b] on a sequence, a and b any integers (negative = from end).
PyIndex(n, i) == IF i < 0 THEN Max(n + i, 0) ELSE Min(i, n)
PySlice(s, a, b) ==
    LET lo == PyIndex(Len(s), a)
        hi == PyIndex(Len(s), b)
    IN  IF lo >= hi THEN <<>> ELSE SubSeq(s, lo + 1, hi)

\* Python s[a:]
PySliceFrom(s, a) == PySlice(s, a, Len(s))

\* Python s[:n]
PyPrefix(s, n) == PySlice(s, 0, n)

\* Python's `x or y` on integers: y when x is 0
PyOr(x, y) == IF x = 0 THEN y ELSE x

\* Python str.rfind(ch): greatest 0-based index holding ch, or -1.
RFind(s, ch) ==
    LET hits == {i \in 1..Len(s) : s[i] = ch}
    IN  IF hits = {} THEN -1
        ELSE (CHOOSE i \in hits : \A j \in hits : j <= i) - 1

----------------------------------------------------------------------------
(* RAGService._rrf_merge *)

RRF_K == 60

\* Bounds on the two argument lists.
MaxVec == 3
MaxLex == 2

\* Strings that the code takes apart (ids, prefixes) are sequences of
\* one-character strings; <<>> is the empty string.
\* Result ids; <<>> is the id a formatted vector hit gets when the backend
\* returned no ids (rag_service.py:268).
Ids == {<<>>, <<"a">>, <<"b">>, <<"c">>, <<"d">>}

\* metadata of a lexical hit: the empty dict
NoMeta == [chunk_index |-> -1, document_id |-> <<>>]

VecEntry(i) == [id |-> i, content |-> "v", metadata |-> [chunk_index |-> 0, document_id |-> i]]
LexEntry(i) == [id |-> i, content |-> "l", metadata |-> NoMeta]

\* Scores are the exact rationals 1/(k+rank+1), kept as integer numerators
\* over the common denominator RRFDen.
\* The sidecar corpus of a collection is followed up to MaxCorpus entries.
MaxCorpus == 3      \* entries in one sidecar corpus

RECURSIVE ProdTo(_)
ProdTo(n) == IF n = 0 THEN 1 ELSE (RRF_K + n) * ProdTo(n - 1)
RRFDen == ProdTo(Max(Max(MaxVec, MaxLex), MaxCorpus))

\* 1.0 / (k + rank + 1), rank 0-based
RankShare(rank) == RRFDen \div (RRF_K + rank + 1)

\* The two accumulation loops: scores[rid] after both enumerations.
ListScore(list, rid) ==
    LET ranks == {r \in 1..Len(list) : list[r].id = rid}
        RECURSIVE Sum(_)
        Sum(S) == IF S = {} THEN 0
                  ELSE LET r == CHOOSE x \in S : TRUE
                       IN  RankShare(r - 1) + Sum(S \ {r})
    IN  Sum(ranks)

RRFScore(V, L, rid) == ListScore(V, rid) + ListScore(L, rid)

\* Insertion order of the keys of `scores`: ids in first-encounter order,
\* the vector list enumerated before the lexical list; "" is skipped.
RECURSIVE FirstSeen(_, _)
FirstSeen(list, acc) ==
    IF list = <<>> THEN acc
    ELSE LET rid == Head(list).id
             known == \E i \in 1..Len(acc) : acc[i] = rid
         IN  FirstSeen(Tail(list),
                       IF rid = <<>> \/ known THEN acc ELSE Append(acc, rid))

\* Mutation: the lexical list is enumerated before the vector list.
ScoreKeysLexFirst(V, L) == FirstSeen(V, FirstSeen(L, <<>>))

ScoreKeys(V, L) == FirstSeen(L, FirstSeen(V, <<>>))

\* seen[rid]: the last vector entry with that id, else the first lexical one.
SeenEntry(V, L, rid) ==
    LET vs == {i \in 1..Len(V) : V[i].id = rid}
        ls == {i \in 1..Len(L) : L[i].id = rid}
    IN  IF vs # {} THEN V[CHOOSE i \in vs : \A j \in vs : j <= i]
        ELSE L[CHOOSE i \in ls : \A j \in ls : i <= j]

\* sorted(scores.items(), key=lambda x: -x[1]): stable, descending.
RECURSIVE InsertDesc(_, _, _, _)
InsertDesc(sorted, rid, V, L) ==
    IF sorted = <<>> THEN <<rid>>
    ELSE IF RRFScore(V, L, Head(sorted)) >= RRFScore(V, L, rid)
         THEN <<Head(sorted)>> \o InsertDesc(Tail(sorted), rid, V, L)
         ELSE <<rid>> \o sorted

RECURSIVE SortDesc(_, _, _, _)
SortDesc(keys, acc, V, L) ==
    IF keys = <<>> THEN acc
    ELSE SortDesc(Tail(keys), InsertDesc(acc, Head(keys), V, L), V, L)

rrf_merge(V, L) ==
    LET ordered == SortDesc(ScoreKeys(V, L), <<>>, V, L)
    IN  [i \in 1..Len(ordered) |-> SeenEntry(V, L, ordered[i])]

RRFInit ==
    /\ vector_results \in {[i \in 1..Len(s) |-> VecEntry(s[i])] : s \in SeqsUpTo(Ids, MaxVec)}
    /\ bm25_results \in {[i \in 1..Len(s) |-> LexEntry(s[i])] : s \in SeqsUpTo(Ids, MaxLex)}
    /\ merged = <<>>
    /\ rrf_pc = "call"

RRFMerge ==
    /\ rrf_pc = "call"
    /\ merged' = rrf_merge(vector_results, bm25_results)
    /\ rrf_pc' = "done"
    /\ UNCHANGED <<vector_results, bm25_results, chunkVars, engVars>>

----------------------------------------------------------------------------
(* RAGService._simple_split_text *)

\* Bounds on the chunker's inputs.
MaxText   == 10
MaxChunk  == 9
MaxBreaks == 2

\* "a" stands for any character that is neither "." nor newline.
Chars == {"a", ".", "\n"}

Texts ==
    {t \in SeqsUpTo(Chars, MaxText) :
        Cardinality({i \in 1..Len(t) : t[i] # "a"}) <= MaxBreaks}

\* int(self.rag_config.get("chunkSize") or 500)
DefaultChunkSize == 500
ConfiguredChunkSize(v) == PyOr(v, DefaultChunkSize)

\* Mutation: the fifth is rounded to the nearest integer.
ConfiguredOverlapRounded(size) == Max(0, (2 * size + 5) \div 10)

\* max(0, self._chunk_size // 5)
ConfiguredOverlap(size) == Max(0, size \div 5)

\* The (chunk_size, overlap, rag_config) of a call: any pair handed to the
\* function, a chunk size of zero or below included, or the pair that
\* RAGService makes of the chunkSize of its configuration.
SplitArgs ==
    {<<a[1], a[2], <<>>>> : a \in ((-1)..MaxChunk) \X (0..MaxChunk)}
    \cup {<<ConfiguredChunkSize(v), ConfiguredOverlap(ConfiguredChunkSize(v)), <<v>>>> :
              v \in (-1)..MaxChunk}

SplitInit ==
    /\ text \in Texts
    /\ \E a \in SplitArgs : chunk_size = a[1] /\ overlap = a[2] /\ rag_config = a[3]
    /\ chunks = <<>>
    /\ start = 0
    /\ split_pc = "call"

\* Mutation: an empty text is passed through as no chunk at all.
ShortTextDropsEmpty(t) == IF t = <<>> THEN <<>> ELSE <<t>>

\* if len(text) <= chunk_size: return [text]
ShortText(t) == <<t>>

SplitEnter ==
    /\ split_pc = "call"
    /\ IF Len(text) <= chunk_size
       THEN /\ chunks' = ShortText(text)
            /\ split_pc' = "done"
       ELSE /\ chunks' = <<>>
            /\ split_pc' = "loop"
    /\ start' = 0
    /\ UNCHANGED <<text, chunk_size, overlap, rag_config, rrfVars, engVars>>

\* The cut of the window that begins at s: the value of `end` appended.
WindowEnd(t, s, size) ==
    LET chunk == PySlice(t, s, s + size)
        break_point == Max(RFind(chunk, "."), RFind(chunk, "\n"))
    IN  IF 2 * break_point > size THEN s + break_point + 1 ELSE s + size

\* start = end - overlap
NextStart(end, ov) == end - ov

\* One evaluation of the while condition and, if it holds, of the body.
\* A call that never returns is cut off after MaxText + 1 chunks.
SplitIter ==
    /\ split_pc = "loop"
    /\ Len(chunks) <= MaxText
    /\ IF ~(start < Len(text))
       THEN /\ split_pc' = "done"
            /\ UNCHANGED <<chunks, start>>
       ELSE IF start + chunk_size >= Len(text)
       THEN /\ chunks' = Append(chunks, PySliceFrom(text, start))
            /\ split_pc' = "done"
            /\ UNCHANGED start
       ELSE LET end == WindowEnd(text, start, chunk_size)
            IN  /\ chunks' = Append(chunks, PySlice(text, start, end))
                /\ start' = NextStart(end, overlap)
                /\ split_pc' = "loop"
    /\ UNCHANGED <<text, chunk_size, overlap, rag_config, rrfVars, engVars>>

----------------------------------------------------------------------------
(* The engine: data *)

\* Ids of the documents followed; the decimal id of one is a prefix of the
\* decimal id of the other.
Docs == {1, 11}

\* What the chunker made of each document's text, one token per chunk
\* (a chunk stands for any text that tokenizes to that one word).
DocChunks(d) == IF d = 1 THEN <<"x">> ELSE <<"y", "z">>

\* Query words: each is the word of one chunk and of no other.
Words == {"x", "y"}

\* Bounds of the engine.
MaxN      == 2      \* greatest n_results asked for

NResults == {-1, 0, 1, MaxN}

Global == "global_knowledge_base"

\* f"doc_{document_id}"
DocColl(d) == IF d = 1 THEN "doc_1" ELSE "doc_11"

CollNames == {Global} \cup {DocColl(d) : d \in Docs}

\* The collections that the direct RAGService calls of Spec are made on.
ServiceColls == {Global, DocColl(11)}

\* str(n) for n >= 0
Digit(k) == <<"0", "1", "2", "3", "4", "5", "6", "7", "8", "9">>[k + 1]
RECURSIVE Str(_)
Str(n) == IF n < 10 THEN <<Digit(n)>> ELSE Str(n \div 10) \o <<Digit(n % 10)>>

ChunkSep == <<"_", "c", "h", "u", "n", "k", "_">>

\* f"{document_id}_chunk_{i}"
ChunkId(d, i) == Str(d) \o ChunkSep \o Str(i)

\* Mutation: the prefix is the decimal id alone.
ChunkPrefixBare(d) == Str(d)

\* f"{document_id}_chunk_"
ChunkPrefix(d) == Str(d) \o ChunkSep

\* str.startswith
StartsWith(s, prefix) ==
    /\ Len(prefix) <= Len(s)
    /\ SubSeq(s, 1, Len(prefix)) = prefix

\* s.split("_chunk_")[0]: s up to the first occurrence of the separator.
BeforeChunkSep(s) ==
    LET at == {i \in 1..Len(s) : StartsWith(SubSeq(s, i, Len(s)), ChunkSep)}
    IN  IF at = {} THEN s
        ELSE SubSeq(s, 1, (CHOOSE i \in at : \A j \in at : i <= j) - 1)

\* Mutation: the points are numbered from 1.
StructureChunksFromOne(cs, d) ==
    [i \in 1..Len(cs) |->
        [id |-> ChunkId(d, i), content |-> cs[i], chunk_index |-> i]]

\* for i, chunk in enumerate(chunks): {"id": f"{document_id}_chunk_{i}",
\*     "content": chunk, "chunk_index": i}
StructureChunks(cs, d) ==
    [i \in 1..Len(cs) |->
        [id |-> ChunkId(d, i - 1), content |-> cs[i], chunk_index |-> i - 1]]

\* structure_document of the text of document d, which chunks to DocChunks(d)
structure_document(d) == StructureChunks(DocChunks(d), d)

EmptyCorpus == [ids |-> <<>>, documents |-> <<>>]

----------------------------------------------------------------------------
(* The engine: RAGService methods as functions of the index                *)
(* ix = [colls, store, corpus]; each returns the index it leaves and exc,  *)
(* whether an exception leaves the method.                                 *)

Index == [colls |-> vcolls, store |-> vstore, corpus |-> bm25]

\* The backend calls of a method that may raise, in call order.
AddFaults    == {"none", "add", "save_open", "save_write"}
DeleteFaults == {"none", "delete", "save_open", "save_write"}
ChunkFaults  == {"none", "delete"}
QueryFaults  == {"query", "bm25", "both"}

\* The kinds: "add" and "delete", the calls that change an index, and
\* "query", the calls that read one.
FaultChoice(S, kind) == IF kind \in faults THEN S ELSE {"none"}

\* _save_bm25_corpus: open(path, "w") raising leaves the file as it was;
\* a write raising after the open leaves a truncated file, which
\* _load_bm25_corpus reads as the empty corpus.
SavedCorpus(old, new, fault) ==
    IF fault = "save_open" THEN old
    ELSE IF fault = "save_write" THEN EmptyCorpus
    ELSE new

\* collection.add: ids the collection already holds are left as they are.
CollectionAdd(entries, kps) ==
    LET held(id) == \E j \in 1..Len(entries) : entries[j].id = id
        fresh == SelectSeq(kps, LAMBDA kp : ~held(kp.id))
    IN  entries \o
        [j \in 1..Len(fresh) |->
            [id |-> fresh[j].id,
             content |-> fresh[j].content,
             metadata |-> [chunk_index |-> fresh[j].chunk_index,
                           document_id |-> BeforeChunkSep(fresh[j].id)]]]

\* the hybrid branch of add_to_vector_store: load, append, save
CorpusAppend(corpus, kps) ==
    [ids |-> corpus.ids \o [j \in 1..Len(kps) |-> kps[j].id],
     documents |-> corpus.documents \o [j \in 1..Len(kps) |-> kps[j].content]]

\* Mutation: add_to_vector_store lets the exceptions of its backend through.
AddCatchesNothing(fault) == FALSE

\* except Exception around the whole body of add_to_vector_store
AddCatches(fault) == TRUE

add_to_vector_store(ix, kps, c, fault) ==
    IF ~chromadb THEN [ix |-> ix, exc |-> FALSE]
    ELSE IF fault = "add"
    THEN [ix |-> [ix EXCEPT !.colls = @ \cup {c}], exc |-> ~AddCatches(fault)]
    ELSE LET added == [ix EXCEPT !.colls = @ \cup {c},
                                 !.store[c] = CollectionAdd(@, kps)]
         IN  IF useHybrid /\ BM25Okapi
             THEN [ix |-> [added EXCEPT !.corpus[c] =
                              SavedCorpus(@, CorpusAppend(@, kps), fault)],
                   exc |-> fault # "none" /\ ~AddCatches(fault)]
             ELSE [ix |-> added, exc |-> FALSE]

\* collection.delete(where={"document_id": str(document_id)})
DeleteWhereDocument(entries, doc_str) ==
    SelectSeq(entries, LAMBDA e : e.metadata.document_id # doc_str)

\* Mutation: the texts of the dropped ids stay in the list of documents.
CorpusWithoutPrefixIdsOnly(corpus, prefix) ==
    [ids |-> SelectSeq(corpus.ids, LAMBDA id : ~StartsWith(id, prefix)),
     documents |-> corpus.documents]

\* the hybrid branch of delete_document: load, drop the prefixed ids, save
CorpusWithoutPrefix(corpus, prefix) ==
    LET keep == {i \in 1..Len(corpus.ids) : ~StartsWith(corpus.ids[i], prefix)}
        RECURSIVE Pick(_, _)
        Pick(seq, i) ==
            IF i > Len(corpus.ids) THEN <<>>
            ELSE (IF i \in keep /\ i <= Len(seq) THEN <<seq[i]>> ELSE <<>>)
                 \o Pick(seq, i + 1)
    IN  [ids |-> Pick(corpus.ids, 1), documents |-> Pick(corpus.documents, 1)]

\* Mutation: a delete leaves the corpus alone.
DeleteTouchesCorpusNever == FALSE

\* if self._use_hybrid and BM25Okapi, guarding the corpus part of a delete
DeleteTouchesCorpus == useHybrid /\ BM25Okapi

\* Mutation: delete_document goes on without a client.
DeleteSkippedNever == FALSE

\* if not self.client: return, at the head of delete_document
DeleteSkipped == ~chromadb

delete_document(ix, d, c, fault) ==
    IF DeleteSkipped THEN [ix |-> ix, exc |-> FALSE]
    ELSE LET afterVec ==
                 IF c \in ix.colls /\ fault # "delete"
                 THEN [ix EXCEPT !.store[c] = DeleteWhereDocument(@, Str(d))]
                 ELSE ix
         IN  IF DeleteTouchesCorpus
             THEN [ix |-> [afterVec EXCEPT !.corpus[c] =
                              SavedCorpus(@, CorpusWithoutPrefix(@, ChunkPrefix(d)), fault)],
                   exc |-> FALSE]
             ELSE [ix |-> afterVec, exc |-> FALSE]

\* Mutation: the named ids leave the lexical corpus of the collection too.
delete_chunks_cascading(ix, d, chunk_indices, fault) ==
    IF ~chromadb \/ chunk_indices = {} THEN [ix |-> ix, exc |-> FALSE]
    ELSE IF DocColl(d) \notin ix.colls \/ fault = "delete"
    THEN [ix |-> ix, exc |-> FALSE]
    ELSE LET named(id) == \E i \in chunk_indices : id = ChunkId(d, i)
             keep == {j \in 1..Len(ix.corpus[DocColl(d)].ids) :
                         ~named(ix.corpus[DocColl(d)].ids[j])}
             RECURSIVE Pick(_, _)
             Pick(seq, j) ==
                 IF j > Len(seq) THEN <<>>
                 ELSE (IF j \in keep THEN <<seq[j]>> ELSE <<>>) \o Pick(seq, j + 1)
         IN  [ix |-> [ix EXCEPT !.store[DocColl(d)] =
                         SelectSeq(@, LAMBDA e : ~named(e.id)),
                      !.corpus[DocColl(d)] =
                         [ids |-> Pick(@.ids, 1), documents |-> Pick(@.documents, 1)]],
              exc |-> FALSE]

\* collection.delete(ids=[f"{document_id}_chunk_{i}" for i in chunk_indices])
\* on the collection f"doc_{document_id}"
delete_chunks(ix, d, chunk_indices, fault) ==
    IF ~chromadb \/ chunk_indices = {} THEN [ix |-> ix, exc |-> FALSE]
    ELSE IF DocColl(d) \notin ix.colls \/ fault = "delete"
    THEN [ix |-> ix, exc |-> FALSE]
    ELSE [ix |-> [ix EXCEPT !.store[DocColl(d)] =
                     SelectSeq(@, LAMBDA e :
                         \A i \in chunk_indices : e.id # ChunkId(d, i))],
          exc |-> FALSE]

\* collection.query(query_texts=[query], n_results=k), formatted as in
\* rag_service.py:262-269: the k nearest entries, nearest first.  The
\* embedding distance is 0 between a text and itself and 1 otherwise; equal
\* distances keep the order of insertion.  k <= 0 makes the backend raise.
VectorQuery(entries, q, k) ==
    LET near == SelectSeq(entries, LAMBDA e : e.content = q)
        far  == SelectSeq(entries, LAMBDA e : e.content # q)
    IN  PyPrefix(near \o far, k)

VectorQueryRaises(k) == k <= 0

\* _tokenize_for_bm25 of a one-word text
Tokenize(t) == <<t>>

\* BM25Okapi(tokenized).get_scores(q_tokens) for one-word documents and a
\* one-word query, up to a positive factor: every document that is not the
\* query word scores 0, every document that is the query word scores
\* idf(word).  idf(word) = log(N - n + 0.5) - log(n + 0.5), and a negative idf
\* is replaced by 0.25 * (the mean of the idfs of all words of the corpus).
\* Only the sign is kept: 1, 0 or -1.
Sign(x) == IF x > 0 THEN 1 ELSE IF x < 0 THEN -1 ELSE 0

DocCount(docs, w) == Cardinality({i \in 1..Len(docs) : Tokenize(docs[i]) = <<w>>})

RECURSIVE OddProduct(_, _, _)
OddProduct(docs, ws, flip) ==
    IF ws = {} THEN 1
    ELSE LET w == CHOOSE x \in ws : TRUE
             n == DocCount(docs, w)
         IN  (IF flip THEN 2 * n + 1 ELSE 2 * (Len(docs) - n) + 1)
             * OddProduct(docs, ws \ {w}, flip)

\* sign of the sum over the vocabulary of log((N - n + 0.5) / (n + 0.5))
MeanIdfSign(docs) ==
    LET vocab == {docs[i] : i \in 1..Len(docs)}
    IN  Sign(OddProduct(docs, vocab, FALSE) - OddProduct(docs, vocab, TRUE))

IdfSign(docs, w) ==
    LET n == DocCount(docs, w)
    IN  IF n = 0 THEN 0
        ELSE IF Len(docs) - n < n THEN MeanIdfSign(docs)
        ELSE Sign(Len(docs) - 2 * n)

BM25Score(docs, i, q) ==
    IF Tokenize(docs[i]) = Tokenize(q) THEN IdfSign(docs, q) ELSE 0

\* bm25_scores = bm25.get_scores(q_tokens)
BM25Scores(docs, q) == [i \in 1..Len(docs) |-> BM25Score(docs, i, q)]

\* sorted(range(len(bm25_scores)), key=lambda i: -bm25_scores[i]): stable,
\* positions 1-based
RECURSIVE InsertByScore(_, _, _)
InsertByScore(sorted, i, scores) ==
    IF sorted = <<>> THEN <<i>>
    ELSE IF scores[Head(sorted)] >= scores[i]
         THEN <<Head(sorted)>> \o InsertByScore(Tail(sorted), i, scores)
         ELSE <<i>> \o sorted

RECURSIVE SortByScore(_, _, _)
SortByScore(i, acc, scores) ==
    IF i > Len(scores) THEN acc
    ELSE SortByScore(i + 1, InsertByScore(acc, i, scores), scores)

SortedByScore(scores) == SortByScore(1, <<>>, scores)

ByScoreDesc(docs, q) == SortedByScore(BM25Scores(docs, q))

\* if self._use_hybrid: max(n_results * 2, 10) else n_results
HybridMinFetch == 10
MaxVectorFetch == 100
HybridFetchK(n) == Max(n * 2, HybridMinFetch)

\* Mutation: n_results is not doubled in hybrid mode.
FetchKNoDouble(n) == IF useHybrid THEN Max(n, HybridMinFetch) ELSE n

FetchK(n) == IF useHybrid THEN HybridFetchK(n) ELSE n

\* Mutation: every scored position is looked at, not the first fetch_k.
TopOfScoresUncut(scores, fetch_k) == SortedByScore(scores)

\* top_indices = sorted(...)[:fetch_k]
TopOfScores(scores, fetch_k) == PyPrefix(SortedByScore(scores), fetch_k)

\* for idx in top_indices: if bm25_scores[idx] <= 0: continue
PositiveHits(scores, fetch_k) ==
    SelectSeq(TopOfScores(scores, fetch_k), LAMBDA i : ~(scores[i] <= 0))

\* rag_service.py:286-297: the lexical hits; raises (IndexError) when a
\* scored document has no id.
TopIndices(corpus, q, fetch_k) == TopOfScores(BM25Scores(corpus.documents, q), fetch_k)

LexicalHits(corpus, q, fetch_k) ==
    LET kept == PositiveHits(BM25Scores(corpus.documents, q), fetch_k)
    IN  [j \in 1..Len(kept) |->
            [id |-> corpus.ids[kept[j]],
             content |-> corpus.documents[kept[j]],
             metadata |-> NoMeta]]

LexicalRaises(corpus, q, fetch_k) ==
    LET top == TopIndices(corpus, q, fetch_k)
    IN  \E j \in 1..Len(top) :
            /\ BM25Score(corpus.documents, top[j], q) > 0
            /\ top[j] > Len(corpus.ids)

\* Mutation: the hybrid test does not read useHybrid.
VectorOnlyIgnoresFlag == ~BM25Okapi

\* if not self._use_hybrid or not BM25Okapi: return formatted[:n_results]
VectorOnly == ~useHybrid \/ ~BM25Okapi

\* except Exception around the vector query: formatted = []
QueryFallback == <<>>

\* Mutation: the handler of a failed vector query returns [] at once.
ReturnOnQueryError(rest) == <<>>

\* That handler has no return: the call goes on to what follows it.
ContinueOnQueryError(rest) == rest

search_similar(ix, q, c, n, fault) ==
    IF ~chromadb
    THEN [ix |-> ix, result |-> <<>>, formatted |-> <<>>, exc |-> FALSE,
          queried |-> <<>>, lex_cut |-> <<>>]
    ELSE
    LET fetch_k == FetchK(n)
        k == Min(fetch_k, MaxVectorFetch)
        after == [ix EXCEPT !.colls = @ \cup {c}]
        raised == fault \in {"query", "both"} \/ VectorQueryRaises(k)
        formatted ==
            IF raised THEN QueryFallback ELSE VectorQuery(ix.store[c], q, k)
        corpus == ix.corpus[c]
        rest ==
            IF VectorOnly THEN PyPrefix(formatted, n)
            ELSE IF corpus.documents = <<>> THEN PyPrefix(formatted, n)
            ELSE IF fault \in {"bm25", "both"} \/ LexicalRaises(corpus, q, fetch_k)
            THEN PyPrefix(formatted, n)
            ELSE PyPrefix(rrf_merge(formatted, LexicalHits(corpus, q, fetch_k)), n)
        result == IF raised THEN ContinueOnQueryError(rest) ELSE rest
        ranked ==
            /\ ~VectorOnly
            /\ corpus.documents # <<>>
            /\ fault \notin {"bm25", "both"}
    IN  [ix |-> after, result |-> result, formatted |-> formatted, exc |-> FALSE,
         queried |-> <<k>>,
         lex_cut |-> IF ranked THEN <<fetch_k>> ELSE <<>>]

----------------------------------------------------------------------------
(* The lexical part of search_similar (rag_service.py:281-299) over the    *)
(* scores of a corpus large enough for the cut at fetch_k to bind.         *)

\* Bounds: corpus entries scored, and the scores an entry can get.
MaxScores == 11
ScoreValues == {0, 1, 2}
LexNs == {5}

LexIdle ==
    /\ bm25_scores = <<>> /\ lex_n = 0 /\ lex_hits = <<>> /\ lex_pc = "done"

LexInit ==
    /\ bm25_scores \in SeqsUpTo(ScoreValues, MaxScores)
    /\ lex_n \in LexNs
    /\ lex_hits = <<>>
    /\ lex_pc = "call"

\* top_indices and the loop that fills bm25_results, in hybrid mode
LexRank ==
    /\ lex_pc = "call"
    /\ lex_hits' = PositiveHits(bm25_scores, HybridFetchK(lex_n))
    /\ lex_pc' = "done"
    /\ UNCHANGED <<bm25_scores, lex_n, rrfVars, chunkVars, cfgVars, indexVars,
                   call, ret, dbVars, raceVars>>

----------------------------------------------------------------------------
(* The engine: one action per RAGService call *)

\* call describes the RAGService call that has just returned, made under
\* the configuration of the state; a change of configuration forgets it.
NoCall ==
    [op |-> "none", d |-> 0, c |-> "", q |-> "", n |-> 0, indices |-> {},
     fault |-> "none", exc |-> FALSE]

Called(op, d, c, q, n, indices, fault, exc) ==
    [op |-> op, d |-> d, c |-> c, q |-> q, n |-> n, indices |-> indices,
     fault |-> fault, exc |-> exc]

EngInit ==
    /\ chromadb \in BOOLEAN
    /\ BM25Okapi \in BOOLEAN
    /\ useHybrid = TRUE
    /\ vcolls = {}
    /\ vstore = [c \in CollNames |-> <<>>]
    /\ bm25 = [c \in CollNames |-> EmptyCorpus]
    /\ call = NoCall
    /\ ret = <<>>
    /\ db_documents = [d \in Docs |-> "absent"]
    /\ db_knowledge_points = [d \in Docs |-> <<>>]
    /\ db_processed = [d \in Docs |-> FALSE]
    /\ ingest = <<>>
    /\ saved = <<>>
    /\ LexIdle

Leave(ix) ==
    /\ vcolls' = ix.colls
    /\ vstore' = ix.store
    /\ bm25' = ix.corpus

HoldsId(entries, id) == \E j \in 1..Len(entries) : entries[j].id = id

\* rag.add_to_vector_store(structure_document(text, d), c); the points of a
\* document are offered to a collection that holds none of their ids (a
\* document is ingested once), and the corpus is followed up to MaxCorpus.
AddToVectorStore ==
    \E d \in Docs, f \in FaultChoice(AddFaults, "add") :
      \E c \in {DocColl(d), Global} \cap ServiceColls :
        LET kps == structure_document(d)
            out == add_to_vector_store(Index, kps, c, f)
        IN  /\ \A j \in 1..Len(kps) : ~HoldsId(vstore[c], kps[j].id)
            /\ Len(bm25[c].ids) + Len(kps) <= MaxCorpus
            /\ Leave(out.ix)
            /\ call' = Called("add", d, c, "", 0, {}, f, out.exc)
            /\ ret' = <<>>
            /\ UNCHANGED <<cfgVars, dbVars, rrfVars, chunkVars, raceVars, lexVars>>

\* rag.delete_document(str(d), c)
DeleteDocument ==
    \E d \in Docs, c \in ServiceColls, f \in FaultChoice(DeleteFaults, "delete") :
        LET out == delete_document(Index, d, c, f)
        IN  /\ Leave(out.ix)
            /\ call' = Called("delete_document", d, c, "", 0, {}, f, out.exc)
            /\ ret' = <<>>
            /\ UNCHANGED <<cfgVars, dbVars, rrfVars, chunkVars, raceVars, lexVars>>

\* rag.delete_chunks(d, chunk_indices)
DeleteChunks ==
    \E d \in Docs, f \in FaultChoice(ChunkFaults, "delete") :
      \E idx \in SUBSET (0..(Len(DocChunks(d)) - 1)) :
        LET out == delete_chunks(Index, d, idx, f)
        IN  /\ Leave(out.ix)
            /\ call' = Called("delete_chunks", d, DocColl(d), "", 0, idx, f, out.exc)
            /\ ret' = <<>>
            /\ UNCHANGED <<cfgVars, dbVars, rrfVars, chunkVars, raceVars, lexVars>>

\* rag.search_similar(q, c, n); call keeps the n_results handed to
\* collection.query and the cut of top_indices, if the call got there.
Search(q, c, n, f) ==
        LET out == search_similar(Index, q, c, n, f)
        IN  /\ Leave(out.ix)
            /\ call' = Called("search", 0, c, q, n, {}, f, out.exc)
                          @@ [queried |-> out.queried, lex_cut |-> out.lex_cut]
            /\ ret' = out.result
            /\ UNCHANGED <<cfgVars, dbVars, rrfVars, chunkVars, raceVars, lexVars>>

SearchSimilar ==
    \E q \in Words, c \in ServiceColls, n \in NResults, f \in FaultChoice(QueryFaults, "query") :
        Search(q, c, n, f)

\* n_results at and next to the values where fetch_k leaves its floor of 10
\* and where it passes the 100 of the vector query.
FetchNs ==
    {-1, 0, HybridMinFetch \div 2, HybridMinFetch \div 2 + 1,
     MaxVectorFetch \div 2, MaxVectorFetch \div 2 + 1,
     MaxVectorFetch, MaxVectorFetch + 1}

SearchSimilarWide ==
    \E q \in Words, c \in ServiceColls, n \in FetchNs, f \in FaultChoice(QueryFaults, "query") :
        Search(q, c, n, f)

\* POST /config/rag with another useHybrid
SaveRagConfig ==
    /\ useHybrid' = ~useHybrid
    /\ call' = NoCall
    /\ ret' = <<>>
    /\ UNCHANGED <<chromadb, BM25Okapi, faults, indexVars, dbVars, rrfVars, chunkVars, raceVars, lexVars>>

\* The backend process is started again where the optional libraries
\* chromadb and rank_bm25 are installed or not; the files on disk stay.
RestartBackend ==
    /\ chromadb' \in BOOLEAN
    /\ BM25Okapi' \in BOOLEAN
    /\ <<chromadb', BM25Okapi'>> # <<chromadb, BM25Okapi>>
    /\ call' = NoCall
    /\ ret' = <<>>
    /\ UNCHANGED <<useHybrid, faults, indexVars, dbVars, rrfVars, chunkVars, raceVars, lexVars>>

----------------------------------------------------------------------------
(* The document handlers of api/routers/documents.py                       *)

\* Knowledge-point rows of one document are followed up to MaxRows rows
\* and up to the chunk_index MaxIndex.
MaxRows == 3
MaxIndex == 3

\* processor.process_document(file_path, file_type): an "error" result, a
\* cleaned_text that is empty or blank, or a text that chunks to DocChunks(d)
Extractions == {"error", "empty", "ok"}

\* POST /documents/upload: a Document row with processing_status "pending",
\* and process_document_background scheduled for it
UploadDocument ==
    \E d \in Docs :
        /\ db_documents[d] = "absent"
        /\ db_documents' = [db_documents EXCEPT ![d] = "pending"]
        /\ db_processed' = [db_processed EXCEPT ![d] = FALSE]
        /\ call' = [op |-> "upload", d |-> d]
        /\ ret' = <<>>
        /\ UNCHANGED <<db_knowledge_points, cfgVars, indexVars, rrfVars, chunkVars, raceVars, lexVars>>

\* KnowledgePoint(document_id=doc.id, content=kp["content"],
\*                chunk_index=kp["chunk_index"]) for every point
KnowledgePointRows(kps) ==
    [j \in 1..Len(kps) |-> [content |-> kps[j].content, chunk_index |-> kps[j].chunk_index]]

\* The two writes of process_document_background, to f"doc_{doc.id}" and to
\* "global_knowledge_base"; an exception out of the first skips the second.
IndexKnowledgePoints(ix, d, kps, f1, f2) ==
    LET first == add_to_vector_store(ix, kps, DocColl(d), f1)
        second == add_to_vector_store(first.ix, kps, Global, f2)
    IN  IF kps = <<>> THEN [ix |-> ix, exc |-> FALSE]
        ELSE IF first.exc THEN first
        ELSE second

\* process_document_background(document_id, ...), from the Document row the
\* upload left to the final status; an exception anywhere is caught by the
\* outer handler, which sets the status "failed".  At most one of the two
\* index writes of a run meets a failing backend call.
ProcessDocumentBackground ==
    \E d \in Docs, x \in Extractions :
      \E f1 \in FaultChoice(AddFaults, "add"), f2 \in FaultChoice(AddFaults, "add") :
        LET kps == structure_document(d)
            out == IndexKnowledgePoints(Index, d, kps, f1, f2)
        IN  /\ db_documents[d] = "pending"
            /\ x # "ok" => f1 = "none" /\ f2 = "none"
            /\ f1 = "none" \/ f2 = "none"
            /\ \A c \in {DocColl(d), Global} : Len(bm25[c].ids) + Len(kps) <= MaxCorpus
            /\ Len(db_knowledge_points[d]) + Len(kps) <= MaxRows
            /\ IF x # "ok"
               THEN /\ db_documents' = [db_documents EXCEPT ![d] = "failed"]
                    /\ UNCHANGED <<db_knowledge_points, db_processed, indexVars>>
               ELSE /\ Leave(out.ix)
                    /\ IF out.exc
                       THEN /\ db_documents' = [db_documents EXCEPT ![d] = "failed"]
                            /\ UNCHANGED <<db_knowledge_points, db_processed>>
                       ELSE /\ db_documents' = [db_documents EXCEPT ![d] = "completed"]
                            /\ db_processed' = [db_processed EXCEPT ![d] = TRUE]
                            /\ db_knowledge_points' =
                                   [db_knowledge_points EXCEPT
                                       ![d] = @ \o KnowledgePointRows(kps)]
            /\ call' = [op |-> "process", d |-> d, extraction |-> x,
                        faults |-> <<f1, f2>>, exc |-> FALSE]
            /\ ret' = <<>>
            /\ UNCHANGED <<cfgVars, rrfVars, chunkVars, raceVars, lexVars>>

EndpointFaults == DeleteFaults \cup {"delete_collection"}

\* rag.client.delete_collection(name): raises for a collection that does
\* not exist; the handler logs the exception and goes on.
delete_collection(ix, c, fault) ==
    IF c \notin ix.colls \/ fault = "delete_collection" THEN ix
    ELSE [ix EXCEPT !.colls = @ \ {c}, !.store[c] = <<>>]

\* DELETE /documents/{document_id}: the rows of the document go, and with a
\* client the collection f"doc_{document_id}" is dropped and
\* rag.delete_document(str(document_id), "global_knowledge_base") is called.
DeleteDocumentEndpoint ==
    \E d \in Docs, f \in FaultChoice(EndpointFaults, "delete") :
        LET dropped == delete_collection(Index, DocColl(d), f)
            out == delete_document(dropped, d, Global, f)
        IN  /\ db_documents[d] # "absent"
            /\ db_documents' = [db_documents EXCEPT ![d] = "absent"]
            /\ db_knowledge_points' = [db_knowledge_points EXCEPT ![d] = <<>>]
            /\ db_processed' = [db_processed EXCEPT ![d] = FALSE]
            /\ IF chromadb THEN Leave(out.ix) ELSE UNCHANGED indexVars
            /\ call' = [op |-> "delete_endpoint", d |-> d, fault |-> f]
            /\ ret' = <<>>
            /\ UNCHANGED <<cfgVars, rrfVars, chunkVars, raceVars, lexVars>>

\* func.coalesce(func.max(KnowledgePoint.chunk_index), -1) over the rows
MaxChunkIndex(rows) ==
    IF rows = <<>> THEN -1
    ELSE LET held == {rows[j].chunk_index : j \in 1..Len(rows)}
         IN  CHOOSE m \in held : \A k \in held : k <= m

\* max_idx = db.query(coalesce(max(chunk_index), -1)).scalar() or -1
\* next_index = max_idx + 1
NextIndex(rows) == PyOr(MaxChunkIndex(rows), -1) + 1

\* POST /documents/knowledge-points: a manual row for an existing document
CreateManualKnowledgePoint ==
    \E d \in Docs :
        /\ db_documents[d] # "absent"
        /\ Len(db_knowledge_points[d]) < MaxRows
        /\ NextIndex(db_knowledge_points[d]) <= MaxIndex
        /\ db_knowledge_points' =
               [db_knowledge_points EXCEPT
                   ![d] = Append(@, [content |-> "m",
                                     chunk_index |-> NextIndex(db_knowledge_points[d])])]
        /\ call' = [op |-> "create_manual", d |-> d,
                    before |-> db_knowledge_points[d]]
        /\ ret' = <<>>
        /\ UNCHANGED <<db_documents, db_processed, cfgVars, indexVars, rrfVars, chunkVars, raceVars, lexVars>>

\* The rows of a sequence at the positions outside sel, in order.
RowsOutside(rows, sel) ==
    LET RECURSIVE Keep(_)
        Keep(j) == IF j > Len(rows) THEN <<>>
                   ELSE (IF j \in sel THEN <<>> ELSE <<rows[j]>>) \o Keep(j + 1)
    IN  Keep(1)

\* for doc_id, chunk_indices in doc_chunks.items():
\*     if rag.client and chunk_indices: rag.delete_chunks(doc_id, chunk_indices)
RECURSIVE DeleteChunksOfBatch(_, _, _)
DeleteChunksOfBatch(ix, indices, ds) ==
    IF ds = {} THEN ix
    ELSE LET d == CHOOSE x \in ds : TRUE
             after == IF chromadb /\ indices[d] # {}
                      THEN delete_chunks(ix, d, indices[d], "none").ix
                      ELSE ix
         IN  DeleteChunksOfBatch(after, indices, ds \ {d})

\* DELETE /documents/knowledge-points/batch: the rows with the given ids go
\* from the relational store, then their chunk indices from the vector
\* collection of each document.  sel[d]: the positions of the rows of d
\* that the ids name.
DeleteKnowledgePointsBatch ==
    \E sel \in [Docs -> SUBSET (1..MaxRows)] :
        LET indices == [d \in Docs |->
                           {db_knowledge_points[d][j].chunk_index : j \in sel[d]}]
        IN  /\ \A d \in Docs : sel[d] \subseteq 1..Len(db_knowledge_points[d])
            /\ \E d \in Docs : sel[d] # {}
            /\ db_knowledge_points' =
                   [d \in Docs |-> RowsOutside(db_knowledge_points[d], sel[d])]
            /\ Leave(DeleteChunksOfBatch(Index, indices, Docs))
            /\ call' = [op |-> "delete_batch",
                         deleted |-> UNION {{ChunkId(d, i) : i \in indices[d]} : d \in Docs}]
            /\ ret' = <<>>
            /\ UNCHANGED <<db_documents, db_processed, cfgVars, rrfVars, chunkVars, raceVars, lexVars>>

----------------------------------------------------------------------------
(* Ingestions running side by side: the two index writes of                *)
(* process_document_background, each add_to_vector_store taken one backend *)
(* or file access at a time, with nothing that keeps two runs apart.       *)

\* rag.add_to_vector_store(kps, f"doc_{doc.id}"), then
\* rag.add_to_vector_store(kps, "global_knowledge_base")
IngestTargets(d) == <<DocColl(d), Global>>

IngestStart == [at |-> 1, phase |-> "add", local |-> EmptyCorpus, seen |-> 0]

RaceInit ==
    /\ chromadb = TRUE /\ BM25Okapi = TRUE /\ useHybrid = TRUE
    /\ faults = {}
    /\ vcolls = {}
    /\ vstore = [c \in CollNames |-> <<>>]
    /\ bm25 = [c \in CollNames |-> EmptyCorpus]
    /\ call = NoCall
    /\ ret = <<>>
    /\ db_documents = [d \in Docs |-> "pending"]
    /\ db_knowledge_points = [d \in Docs |-> <<>>]
    /\ db_processed = [d \in Docs |-> FALSE]
    /\ ingest = [d \in Docs |-> IngestStart]
    /\ saved = <<>>
    /\ LexIdle

\* The write after the one r is at, or the end of the run.
NextWrite(d, r) ==
    IF r.at < Len(IngestTargets(d))
    THEN [at |-> r.at + 1, phase |-> "add", local |-> EmptyCorpus, seen |-> 0]
    ELSE [r EXCEPT !.phase = "done", !.local = EmptyCorpus]

SavesOn(c) == Cardinality({j \in 1..Len(saved) : saved[j][2] = c})

\* collection = self._get_collection(c); collection.add(...)
IngestVectorAdd ==
    \E d \in Docs :
        LET c == IngestTargets(d)[ingest[d].at]
        IN  /\ ingest[d].phase = "add"
            /\ vcolls' = vcolls \cup {c}
            /\ vstore' = [vstore EXCEPT ![c] = CollectionAdd(@, structure_document(d))]
            /\ ingest' = [ingest EXCEPT ![d] =
                             IF useHybrid /\ BM25Okapi
                             THEN [@ EXCEPT !.phase = "load"]
                             ELSE NextWrite(d, @)]
            /\ UNCHANGED <<bm25, saved, cfgVars, call, ret, dbVars, rrfVars, chunkVars, lexVars>>

\* bm25_ids, bm25_docs = self._load_bm25_corpus(c), and the appends to the
\* two lists in memory
IngestCorpusLoad ==
    \E d \in Docs :
        LET c == IngestTargets(d)[ingest[d].at]
        IN  /\ ingest[d].phase = "load"
            /\ ingest' = [ingest EXCEPT ![d] =
                             [@ EXCEPT !.phase = "save",
                                       !.local = CorpusAppend(bm25[c], structure_document(d)),
                                       !.seen = SavesOn(c)]]
            /\ UNCHANGED <<indexVars, saved, cfgVars, call, ret, dbVars, rrfVars, chunkVars, lexVars>>

\* Mutation: the save appends the points to what the file holds by then.
SaveAppends(current, local, kps) == CorpusAppend(current, kps)

\* self._save_bm25_corpus(c, bm25_ids, bm25_docs): the file is written anew
\* from the lists in memory
SaveWhole(current, local, kps) == local

IngestCorpusSave ==
    \E d \in Docs :
        LET c == IngestTargets(d)[ingest[d].at]
        IN  /\ ingest[d].phase = "save"
            /\ bm25' = [bm25 EXCEPT ![c] =
                           SaveWhole(@, ingest[d].local, structure_document(d))]
            /\ saved' = Append(saved, <<d, c>>)
            /\ ingest' = [ingest EXCEPT ![d] = NextWrite(d, @)]
            /\ UNCHANGED <<vcolls, vstore, cfgVars, call, ret, dbVars, rrfVars, chunkVars, lexVars>>

----------------------------------------------------------------------------
(* The deletion endpoint of one document beside the ingestion of another:  *)
(* delete_collection and delete_document taken one backend or file access  *)
(* at a time.                                                              *)

\* The index after add_to_vector_store(kps, "doc_{d}") and
\* add_to_vector_store(kps, "global_knowledge_base") in a row, from nothing.
IngestedAlone(d) ==
    LET none == [colls |-> {}, store |-> [c \in CollNames |-> <<>>],
                 corpus |-> [c \in CollNames |-> EmptyCorpus]]
        first == add_to_vector_store(none, structure_document(d), DocColl(d), "none").ix
    IN  add_to_vector_store(first, structure_document(d), Global, "none").ix

\* One document has been ingested and its deletion begins; the ingestion of
\* the other one begins.
RaceDeleteInit ==
    /\ chromadb = TRUE
    /\ BM25Okapi \in BOOLEAN
    /\ useHybrid \in BOOLEAN
    /\ faults = {}
    /\ \E gone \in Docs :
          /\ vcolls = IngestedAlone(gone).colls
          /\ vstore = IngestedAlone(gone).store
          /\ bm25 = IngestedAlone(gone).corpus
          /\ ingest = [d \in Docs |->
                          IF d = gone THEN [IngestStart EXCEPT !.at = 2, !.phase = "drop"]
                          ELSE IngestStart]
    /\ call = NoCall
    /\ ret = <<>>
    /\ db_documents = [d \in Docs |-> "pending"]
    /\ db_knowledge_points = [d \in Docs |-> <<>>]
    /\ db_processed = [d \in Docs |-> FALSE]
    /\ saved = <<>>
    /\ LexIdle

\* rag.client.delete_collection(f"doc_{document_id}")
EndpointDropCollection ==
    \E d \in Docs :
        /\ ingest[d].phase = "drop"
        /\ Leave(delete_collection(Index, DocColl(d), "none"))
        /\ ingest' = [ingest EXCEPT ![d] = [@ EXCEPT !.phase = "del_vector"]]
        /\ UNCHANGED <<saved, cfgVars, call, ret, dbVars, rrfVars, chunkVars, lexVars>>

\* collection = self.client.get_collection(name); collection.delete(where=...)
EndpointVectorDelete ==
    \E d \in Docs :
        /\ ingest[d].phase = "del_vector"
        /\ vstore' = IF Global \in vcolls
                     THEN [vstore EXCEPT ![Global] = DeleteWhereDocument(@, Str(d))]
                     ELSE vstore
        /\ ingest' = [ingest EXCEPT ![d] =
                         [@ EXCEPT !.phase = IF DeleteTouchesCorpus
                                             THEN "del_load" ELSE "deleted"]]
        /\ UNCHANGED <<vcolls, bm25, saved, cfgVars, call, ret, dbVars, rrfVars,
                       chunkVars, lexVars>>

\* bm25_ids, bm25_docs = self._load_bm25_corpus(c), and the two filtered
\* lists made of them in memory
EndpointCorpusLoad ==
    \E d \in Docs :
        /\ ingest[d].phase = "del_load"
        /\ ingest' = [ingest EXCEPT ![d] =
                         [@ EXCEPT !.phase = "del_save",
                                   !.local = CorpusWithoutPrefix(bm25[Global], ChunkPrefix(d)),
                                   !.seen = SavesOn(Global)]]
        /\ UNCHANGED <<indexVars, saved, cfgVars, call, ret, dbVars, rrfVars,
                       chunkVars, lexVars>>

\* self._save_bm25_corpus(c, new_ids, new_docs)
EndpointCorpusSave ==
    \E d \in Docs :
        /\ ingest[d].phase = "del_save"
        /\ bm25' = [bm25 EXCEPT ![Global] = SaveWhole(@, ingest[d].local, <<>>)]
        /\ saved' = Append(saved, <<d, Global>>)
        /\ ingest' = [ingest EXCEPT ![d] =
                         [@ EXCEPT !.phase = "deleted", !.local = EmptyCorpus]]
        /\ UNCHANGED <<vcolls, vstore, cfgVars, call, ret, dbVars, rrfVars,
                       chunkVars, lexVars>>

----------------------------------------------------------------------------
(* process_document_background, one commit of the session per step, with   *)
(* the call of structure_document run through _simple_split_text           *)
(* (RecursiveCharacterTextSplitter is None).                               *)

\* The chunkSize values the configuration file may hold: POST /config/rag
\* stores what it is sent.
TaskChunkSizes == {-1, 0, 2}

\* cleaned_text of an extraction that succeeded
TaskTexts == {<<"a">>, <<"a", "a", "a">>}

TaskIdle == [phase |-> "idle", kps |-> <<>>]

TaskInit ==
    /\ chromadb \in BOOLEAN /\ BM25Okapi = TRUE /\ useHybrid = TRUE
    /\ faults = {}
    /\ vcolls = {}
    /\ vstore = [c \in CollNames |-> <<>>]
    /\ bm25 = [c \in CollNames |-> EmptyCorpus]
    /\ call = NoCall
    /\ ret = <<>>
    /\ db_documents = [d \in Docs |-> "absent"]
    /\ db_knowledge_points = [d \in Docs |-> <<>>]
    /\ db_processed = [d \in Docs |-> FALSE]
    /\ ingest = [d \in Docs |-> TaskIdle]
    /\ saved = <<>>
    /\ text = <<>> /\ chunk_size = 1 /\ overlap = 0
    /\ rag_config \in {<<v>> : v \in TaskChunkSizes}
    /\ chunks = <<>> /\ start = 0 /\ split_pc = "done"

\* POST /config/rag with another chunkSize
SaveRagChunkSize ==
    \E v \in TaskChunkSizes :
        /\ rag_config # <<v>>
        /\ rag_config' = <<v>>
        /\ call' = NoCall
        /\ ret' = <<>>
        /\ UNCHANGED <<text, chunk_size, overlap, chunks, start, split_pc, cfgVars,
                       indexVars, dbVars, rrfVars, raceVars, lexVars>>

\* The task scheduled by the upload finds the row, sets processing_status
\* "processing" and commits.
TaskBegin ==
    \E d \in Docs :
        /\ db_documents[d] = "pending"
        /\ ingest[d].phase = "idle"
        /\ db_documents' = [db_documents EXCEPT ![d] = "processing"]
        /\ ingest' = [ingest EXCEPT ![d].phase = "extract"]
        /\ call' = [op |-> "task", d |-> d, step |-> "begin"]
        /\ ret' = <<>>
        /\ UNCHANGED <<db_knowledge_points, db_processed, saved, cfgVars, indexVars,
                       rrfVars, chunkVars, lexVars>>

\* processor.process_document: an "error" result or an empty cleaned_text
\* commits "failed" and returns; otherwise RAGService is built from the
\* configuration and structure_document calls _simple_split_text.  The
\* chunker is followed for one task at a time.
TaskExtract ==
    \E d \in Docs, x \in Extractions, t \in TaskTexts :
        /\ ingest[d].phase = "extract"
        /\ call' = [op |-> "task", d |-> d, step |-> x]
        /\ ret' = <<>>
        /\ IF x # "ok"
           THEN /\ db_documents' = [db_documents EXCEPT ![d] = "failed"]
                /\ ingest' = [ingest EXCEPT ![d].phase = "ended"]
                /\ UNCHANGED chunkVars
           ELSE /\ \A e \in Docs : ingest[e].phase # "structure"
                /\ text' = t
                /\ chunk_size' = ConfiguredChunkSize(rag_config[1])
                /\ overlap' = ConfiguredOverlap(ConfiguredChunkSize(rag_config[1]))
                /\ chunks' = <<>>
                /\ start' = 0
                /\ split_pc' = "call"
                /\ ingest' = [ingest EXCEPT ![d].phase = "structure"]
                /\ UNCHANGED <<db_documents, rag_config>>
        /\ UNCHANGED <<db_knowledge_points, db_processed, saved, cfgVars, indexVars,
                       rrfVars, lexVars>>

\* structure_document has returned: both index writes, one KnowledgePoint
\* row per point, processed = True and "completed" in one commit.
TaskCommit ==
    \E d \in Docs :
        LET kps == StructureChunks(chunks, d)
            out == IndexKnowledgePoints(Index, d, kps, "none", "none")
        IN  /\ ingest[d].phase = "structure"
            /\ split_pc = "done"
            /\ Leave(out.ix)
            /\ db_knowledge_points' =
                   [db_knowledge_points EXCEPT ![d] = @ \o KnowledgePointRows(kps)]
            /\ db_processed' = [db_processed EXCEPT ![d] = TRUE]
            /\ db_documents' = [db_documents EXCEPT ![d] = "completed"]
            /\ ingest' = [ingest EXCEPT ![d] = [phase |-> "ended", kps |-> kps]]
            /\ call' = [op |-> "task", d |-> d, step |-> "commit"]
            /\ ret' = <<>>
            /\ UNCHANGED <<saved, cfgVars, rrfVars, chunkVars, lexVars>>

----------------------------------------------------------------------------
(* Specifications *)

EngIdle ==
    /\ chromadb = FALSE /\ BM25Okapi = FALSE /\ useHybrid = FALSE /\ faults = {}
    /\ vcolls = {} /\ vstore = <<>> /\ bm25 = <<>>
    /\ call = <<>> /\ ret = <<>>
    /\ db_documents = <<>> /\ db_knowledge_points = <<>> /\ db_processed = <<>>
    /\ ingest = <<>> /\ saved = <<>>

RRFIdle ==
    /\ vector_results = <<>> /\ bm25_results = <<>>
    /\ merged = <<>> /\ rrf_pc = "done"
SplitIdle ==
    /\ text = <<>> /\ chunk_size = 1 /\ overlap = 0 /\ rag_config = <<>>
    /\ chunks = <<>> /\ start = 0 /\ split_pc = "done"

InitRRF == RRFInit /\ SplitIdle /\ EngIdle /\ LexIdle
NextRRF == RRFMerge
SpecRRF == InitRRF /\ [][NextRRF]_vars

InitChunk == SplitInit /\ RRFIdle /\ EngIdle /\ LexIdle
NextChunk == SplitEnter \/ SplitIter
SpecChunk == InitChunk /\ [][NextChunk]_vars

Init ==
    /\ EngInit /\ faults = {}
    /\ RRFIdle /\ SplitIdle
InitFaults ==
    /\ EngInit /\ faults = {"query"}
    /\ RRFIdle /\ SplitIdle
Next ==
    \/ AddToVectorStore
    \/ DeleteDocument
    \/ DeleteChunks
    \/ SearchSimilar
    \/ SaveRagConfig
    \/ RestartBackend
Spec == Init /\ [][Next]_vars
\* With failing queries the index is built and emptied by whole documents.
NextFaults ==
    \/ AddToVectorStore
    \/ DeleteDocument
    \/ SearchSimilar
    \/ SaveRagConfig
    \/ RestartBackend
SpecFaults == InitFaults /\ [][NextFaults]_vars

InitApp ==
    /\ EngInit /\ faults = {}
    /\ RRFIdle /\ SplitIdle
InitAppFaults ==
    /\ EngInit /\ faults = {"add"}
    /\ RRFIdle /\ SplitIdle
NextApp ==
    \/ UploadDocument
    \/ ProcessDocumentBackground
    \/ DeleteDocumentEndpoint
    \/ SaveRagConfig
    \/ RestartBackend
SpecApp == InitApp /\ [][NextApp]_vars

\* The knowledge points of the relational store: ingestion, manual
\* creation and batch deletion.
InitKP ==
    /\ EngInit /\ faults = {}
    /\ RRFIdle /\ SplitIdle
NextKP ==
    \/ UploadDocument
    \/ ProcessDocumentBackground
    \/ CreateManualKnowledgePoint
    \/ DeleteKnowledgePointsBatch
SpecKP == InitKP /\ [][NextKP]_vars

\* Hybrid mode on, rank_bm25 installed, a client, no failing call.
InitHybrid ==
    /\ EngInit /\ faults = {}
    /\ chromadb = TRUE /\ BM25Okapi = TRUE
    /\ RRFIdle /\ SplitIdle
NextHybrid ==
    \/ AddToVectorStore
    \/ DeleteDocument
    \/ SearchSimilar
SpecHybrid == InitHybrid /\ [][NextHybrid]_vars

InitFetch ==
    /\ EngInit /\ faults = {}
    /\ RRFIdle /\ SplitIdle
NextFetch ==
    \/ AddToVectorStore
    \/ SearchSimilarWide
    \/ SaveRagConfig
SpecFetch == InitFetch /\ [][NextFetch]_vars

\* Adds and deletes of whole documents under every configuration.
InitDelete ==
    /\ EngInit /\ faults = {}
    /\ RRFIdle /\ SplitIdle
NextDelete ==
    \/ AddToVectorStore
    \/ DeleteDocument
    \/ SaveRagConfig
    \/ RestartBackend
SpecDelete == InitDelete /\ [][NextDelete]_vars

InitRaceDelete ==
    /\ RaceDeleteInit
    /\ RRFIdle /\ SplitIdle
NextRaceDelete ==
    \/ IngestVectorAdd
    \/ IngestCorpusLoad
    \/ IngestCorpusSave
    \/ EndpointDropCollection
    \/ EndpointVectorDelete
    \/ EndpointCorpusLoad
    \/ EndpointCorpusSave
SpecRaceDelete == InitRaceDelete /\ [][NextRaceDelete]_vars

\* The background tasks of uploaded documents.  SpecTaskFair: every step of
\* a task that can be taken is taken (the worker thread keeps running);
\* uploads and configuration changes may stop coming.
InitTask == TaskInit /\ RRFIdle /\ LexIdle
NextTask ==
    \/ UploadDocument \/ SaveRagChunkSize
    \/ TaskBegin \/ TaskExtract \/ SplitEnter \/ SplitIter \/ TaskCommit
SpecTask == InitTask /\ [][NextTask]_vars
SpecTaskFair ==
    InitTask /\ [][NextTask]_vars
        /\ WF_vars(TaskBegin) /\ WF_vars(TaskExtract)
        /\ WF_vars(SplitEnter) /\ WF_vars(SplitIter) /\ WF_vars(TaskCommit)

InitLex == LexInit /\ RRFIdle /\ SplitIdle /\ EngIdle
NextLex == LexRank
SpecLex == InitLex /\ [][NextLex]_vars

InitRace ==
    /\ RaceInit
    /\ RRFIdle /\ SplitIdle
NextRace ==
    \/ IngestVectorAdd
    \/ IngestCorpusLoad
    \/ IngestCorpusSave
SpecRace == InitRace /\ [][NextRace]_vars
SpecAppFaults == InitAppFaults /\ [][NextApp]_vars

----------------------------------------------------------------------------
(* Properties of _rrf_merge (checked under SpecRRF) *)

IdsOf(list) == [i \in 1..Len(list) |-> list[i].id]

\* Sum over the ranks at which rid stands in list of 1/(60 + r + 1),
\* written over the positions of the list from the back.
RECURSIVE ShareSum(_, _, _)
ShareSum(list, n, rid) ==
    IF n = 0 THEN 0
    ELSE ShareSum(list, n - 1, rid)
         + (IF list[n].id = rid THEN RRFDen \div (60 + (n - 1) + 1) ELSE 0)

FusedScore(rid) ==
    ShareSum(vector_results, Len(vector_results), rid)
    + ShareSum(bm25_results, Len(bm25_results), rid)

\* Position at which rid is first met when the vector list is read before
\* the lexical list.
FirstMet(rid) ==
    LET both == IdsOf(vector_results) \o IdsOf(bm25_results)
    IN  CHOOSE i \in 1..Len(both) :
            both[i] = rid /\ \A j \in 1..(i - 1) : both[j] # rid

MergedIds == IdsOf(merged)

A == <<"a">>
B == <<"b">>
C == <<"c">>
D == <<"d">>

\* C1: the merge returns every non-empty id of the two lists exactly once,
\* in descending order of the summed reciprocal-rank score
\* sum 1/(60 + r + 1), equal scores in the order the ids were first met
\* (vector list before lexical list); [a,b,c] with [b,d] gives [b,a,d,c].
C1_RRFOrder ==
    rrf_pc = "done" =>
        /\ {MergedIds[i] : i \in 1..Len(MergedIds)} =
              {r.id : r \in {vector_results[i] : i \in 1..Len(vector_results)}
                            \cup {bm25_results[i] : i \in 1..Len(bm25_results)}}
              \ {<<>>}
        /\ \A i, j \in 1..Len(MergedIds) :
              i < j =>
                 /\ MergedIds[i] # MergedIds[j]
                 /\ \/ FusedScore(MergedIds[i]) > FusedScore(MergedIds[j])
                    \/ /\ FusedScore(MergedIds[i]) = FusedScore(MergedIds[j])
                       /\ FirstMet(MergedIds[i]) < FirstMet(MergedIds[j])
        /\ (IdsOf(vector_results) = <<A, B, C>> /\ IdsOf(bm25_results) = <<B, D>>)
              => MergedIds = <<B, A, D, C>>

\* The worked example of the specification has been merged.
C1_Witness ==
    /\ rrf_pc = "done"
    /\ IdsOf(vector_results) = <<A, B, C>>
    /\ IdsOf(bm25_results) = <<B, D>>
    /\ MergedIds = <<B, A, D, C>>

----------------------------------------------------------------------------
(* Properties of _simple_split_text (checked under SpecChunk) *)

ValidSplitArgs == chunk_size > 0 /\ 0 <= overlap /\ overlap < chunk_size

\* First chunk followed by every later chunk without its first ov characters.
RECURSIVE TrimmedConcat(_, _)
TrimmedConcat(cs, ov) ==
    IF cs = <<>> THEN <<>>
    ELSE PySliceFrom(Head(cs), ov) \o TrimmedConcat(Tail(cs), ov)

Reconstruct(cs, ov) ==
    IF cs = <<>> THEN <<>> ELSE Head(cs) \o TrimmedConcat(Tail(cs), ov)

\* C5: for valid (chunk_size, overlap) the returned chunks, each later one
\* trimmed of its first `overlap` characters, concatenate to the text.
C5_Coverage ==
    (split_pc = "done" /\ ValidSplitArgs) => Reconstruct(chunks, overlap) = text

\* C6: for valid (chunk_size, overlap) the window start strictly increases
\* from one loop iteration to the next.
C6_StartAdvances ==
    [][(split_pc = "loop" /\ split_pc' = "loop" /\ ValidSplitArgs)
          => start' > start]_vars

\* C7: a text no longer than chunk_size is returned as the single chunk
\* [text], whatever the overlap.
C7_ShortTextPassthrough ==
    (split_pc = "done" /\ Len(text) <= chunk_size) => chunks = <<text>>

\* A non-empty short text was passed through with an overlap that is not
\* even smaller than the chunk size.
C7_Witness ==
    /\ split_pc = "done"
    /\ text # <<>>
    /\ Len(text) <= chunk_size
    /\ overlap >= chunk_size
    /\ chunks = <<text>>

\* C15: a call with chunk_size <= 0 is turned away on entry: it makes no
\* chunk, enters no loop and returns nothing.
C15_NonPositiveSizeRejected ==
    chunk_size <= 0 => (split_pc = "call" /\ chunks = <<>>)

\* C16: a call with overlap >= chunk_size (chunk_size positive) is turned
\* away on entry: it makes no chunk and enters no loop.
C16_OverlapNotBelowSizeRejected ==
    (chunk_size > 0 /\ overlap >= chunk_size)
        => (split_pc = "call" /\ chunks = <<>>)

\* C17: of the empty text, with valid (chunk_size, overlap), no chunk is
\* returned and so no knowledge point is made.
C17_EmptyTextNoChunks ==
    (split_pc = "done" /\ text = <<>> /\ ValidSplitArgs)
        => (chunks = <<>> /\ StructureChunks(chunks, 1) = <<>>)

\* The number that a sequence of decimal digits writes.
RECURSIVE Val(_)
Val(ds) ==
    IF ds = <<>> THEN 0
    ELSE 10 * Val(SubSeq(ds, 1, Len(ds) - 1))
         + (CHOOSE k \in 0..9 : Digit(k) = ds[Len(ds)])

\* C12: the knowledge points made of the chunks of a text are one per
\* chunk, in chunk order, with chunk_index 0, 1, ..., n-1; each id is
\* the document id, "_chunk_" and the decimal chunk_index, and the ids
\* are pairwise distinct.
C12_StructureDocument ==
    split_pc = "done" =>
        \A d \in Docs :
            LET kps == StructureChunks(chunks, d)
            IN  /\ Len(kps) = Len(chunks)
                /\ \A i \in 1..Len(kps) :
                      /\ kps[i].content = chunks[i]
                      /\ kps[i].chunk_index = i - 1
                      /\ StartsWith(kps[i].id, ChunkPrefix(d))
                      /\ Val(SubSeq(kps[i].id, Len(ChunkPrefix(d)) + 1, Len(kps[i].id)))
                             = kps[i].chunk_index
                /\ \A i, j \in 1..Len(kps) : i # j => kps[i].id # kps[j].id

\* A text was cut into three chunks or more, the third of which became
\* the point "11_chunk_2" of document 11.
C12_Witness ==
    /\ split_pc = "done"
    /\ Len(chunks) >= 3
    /\ ValidSplitArgs
    /\ StructureChunks(chunks, 11)[3] =
           [id |-> <<"1", "1", "_", "c", "h", "u", "n", "k", "_", "2">>,
            content |-> chunks[3], chunk_index |-> 2]

----------------------------------------------------------------------------
(* Properties of the RAGService calls (checked under Spec and SpecFaults) *)

\* The first n entries of a list, n >= 0.
Truncated(list, n) == SubSeq(list, 1, Min(n, Len(list)))

Searched == call.op = "search"

\* fetch_k as the specification gives it
SpecFetchK == IF useHybrid THEN Max(2 * call.n, 10) ELSE call.n

\* The answer of the vector index to the query of the call: nothing when the
\* client is absent or the query raised, else the nearest SpecFetchK entries.
VectorAnswer ==
    IF ~chromadb \/ call.fault \in {"query", "both"} \/ SpecFetchK <= 0 THEN <<>>
    ELSE VectorQuery(vstore[call.c], call.q, SpecFetchK)

\* Corpus contents of up to two entries, any id with any text.
CorpusEntries ==
    {ChunkId(d, i) : d \in Docs, i \in 0..1} \X {"x", "y", "z"}
AnyCorpus ==
    {[ids |-> [j \in 1..Len(s) |-> s[j][1]], documents |-> [j \in 1..Len(s) |-> s[j][2]]] :
        s \in SeqsUpTo(CorpusEntries, 2)}

\* C2: with hybrid mode off, or rank_bm25 unavailable, or an empty corpus for
\* the collection, search_similar (n_results >= 0) returns the vector answer
\* cut to n_results; with hybrid mode off the same call returns the same list
\* whatever the corpus of the collection holds.
C2_VectorOnlyDegradation ==
    (Searched /\ call.n >= 0) =>
        /\ (~useHybrid \/ ~BM25Okapi \/ bm25[call.c].documents = <<>>)
              => ret = Truncated(VectorAnswer, call.n)
        /\ ~useHybrid =>
              \A K \in AnyCorpus :
                  search_similar([Index EXCEPT !.corpus[call.c] = K],
                                 call.q, call.c, call.n, call.fault).result = ret

\* A vector-only search answered with hits while the collection's corpus
\* held entries that score for the query.
C2_Witness ==
    /\ Searched /\ call.n > 0
    /\ chromadb /\ BM25Okapi /\ ~useHybrid
    /\ Len(bm25[call.c].ids) >= 3
    /\ LexicalHits(bm25[call.c], call.q, 10) # <<>>
    /\ Len(ret) = call.n
    /\ Len(vstore[call.c]) > call.n

BelongsTo(e, d) ==
    StartsWith(e.id, ChunkPrefix(d)) \/ e.metadata.document_id = Str(d)

\* C3: once delete_document(d, c) has returned (client present), the corpus
\* of c holds no id prefixed "{d}_chunk_" and no search over c returns an
\* entry of d.
C3_DeleteCompleteness ==
    (call.op = "delete_document" /\ chromadb) =>
        /\ \A i \in 1..Len(bm25[call.c].ids) :
              ~StartsWith(bm25[call.c].ids[i], ChunkPrefix(call.d))
        /\ \A q \in Words, n \in NResults :
              LET found == search_similar(Index, q, call.c, n, "none").result
              IN  \A i \in 1..Len(found) : ~BelongsTo(found[i], call.d)

ServiceOps == {"add", "delete_document", "delete_chunks", "search"}

\* C8: without a vector client add_to_vector_store, delete_document,
\* delete_chunks and search_similar raise nothing and change neither the
\* vector index nor any corpus, and search_similar returns [].
C8_AbsentClientNoOp ==
    [][(~chromadb /\ call'.op \in ServiceOps)
          => /\ UNCHANGED indexVars
             /\ ret' = <<>>
             /\ ~call'.exc]_vars

\* A search without a client returned [] over a collection whose corpus
\* holds entries, with hybrid mode on and rank_bm25 present.
C8_Witness ==
    /\ ~chromadb /\ useHybrid /\ BM25Okapi
    /\ Searched /\ call.n > 0
    /\ bm25[call.c].ids # <<>>
    /\ ret = <<>>

\* The lexical hits of the call's query over the corpus of its collection.
LexicalAnswer == LexicalHits(bm25[call.c], call.q, SpecFetchK)

HybridApplies == useHybrid /\ BM25Okapi /\ bm25[call.c].documents # <<>>

\* C10: search_similar raises nothing when a sub-query fails: a failed vector
\* query counts as an empty vector list and the call goes on (in hybrid mode
\* it returns the fused lexical hits), and a failure in the BM25 part returns
\* the vector list cut to n_results.
C10_SubQueryFailureDegrades ==
    (Searched /\ chromadb) =>
        /\ ~call.exc
        /\ (call.fault = "query" /\ call.n >= 0) =>
              /\ HybridApplies =>
                    /\ ret = Truncated(rrf_merge(<<>>, LexicalAnswer), call.n)
                    /\ \A i \in 1..Len(ret) :
                          \E j \in 1..Len(LexicalAnswer) : ret[i] = LexicalAnswer[j]
                    /\ (LexicalAnswer # <<>> /\ call.n > 0) => ret # <<>>
              /\ ~HybridApplies => ret = <<>>
        /\ (call.fault \in {"bm25", "both"} /\ call.n >= 0) =>
              ret = Truncated(VectorAnswer, call.n)

\* A hybrid search whose vector query raised returned lexical hits, over a
\* collection whose vector index does hold entries.
C10_Witness ==
    /\ Searched /\ chromadb /\ HybridApplies
    /\ call.fault = "query"
    /\ vstore[call.c] # <<>>
    /\ ret # <<>>
    /\ ret = Truncated(LexicalAnswer, call.n)

\* A hybrid search whose BM25 part raised returned vector hits.
C10_WitnessBM25 ==
    /\ Searched /\ chromadb /\ HybridApplies
    /\ call.fault = "bm25"
    /\ LexicalAnswer # <<>>
    /\ ret # <<>>
    /\ ret = Truncated(VectorAnswer, call.n)

----------------------------------------------------------------------------
(* Properties of the document handlers (checked under SpecApp and          *)
(* SpecAppFaults)                                                          *)

HoldsChunkOf(ids, d) == \E i \in 1..Len(ids) : StartsWith(ids[i], ChunkPrefix(d))

\* C4: once the deletion endpoint has handled document d (client present),
\* neither the vector index nor the lexical corpus of "doc_{d}" or of
\* "global_knowledge_base" holds an id "{d}_chunk_i".
C4_EndpointDeleteCompleteness ==
    (call.op = "delete_endpoint" /\ chromadb) =>
        \A c \in {DocColl(call.d), Global} :
            /\ ~HoldsChunkOf(IdsOf(vstore[c]), call.d)
            /\ ~HoldsChunkOf(bm25[c].ids, call.d)

\* C9: when the extraction of document d gave a text, the processing ends
\* with the status "completed" and one KnowledgePoint row per chunk, raising
\* nothing, whichever backend call of add_to_vector_store raised.
C9_IndexFailureNeverFailsIngestion ==
    (call.op = "process" /\ call.extraction = "ok") =>
        /\ ~call.exc
        /\ db_documents[call.d] = "completed"
        /\ db_knowledge_points[call.d] = KnowledgePointRows(structure_document(call.d))

\* A document was completed with its rows although the vector add raised on
\* its own collection, which was left without entries.
C9_Witness ==
    /\ call.op = "process" /\ call.extraction = "ok"
    /\ chromadb /\ useHybrid /\ BM25Okapi
    /\ call.faults = <<"add", "none">>
    /\ db_documents[call.d] = "completed"
    /\ Len(db_knowledge_points[call.d]) = 2
    /\ vstore[DocColl(call.d)] = <<>>
    /\ vstore[Global] # <<>>

\* A document was completed with its rows although the save of the global
\* corpus raised after the entries went into the vector index.
C9_WitnessSave ==
    /\ call.op = "process" /\ call.extraction = "ok"
    /\ chromadb /\ useHybrid /\ BM25Okapi
    /\ call.faults[1] = "none"
    /\ call.faults[2] \in {"save_open", "save_write"}
    /\ db_documents[call.d] = "completed"
    /\ Len(db_knowledge_points[call.d]) = 2
    /\ bm25[Global].ids = <<>>
    /\ vstore[Global] # <<>>

----------------------------------------------------------------------------
(* Properties of the knowledge-point rows (checked under SpecKP) *)

IndicesOf(rows) == {rows[j].chunk_index : j \in 1..Len(rows)}

\* C11: the rows of one document hold pairwise distinct chunk_index values,
\* and a manual row gets an index greater than every index the document
\* held before it.
C11_ChunkIndexUnique ==
    /\ \A d \in Docs :
          \A i, j \in 1..Len(db_knowledge_points[d]) :
              i # j => db_knowledge_points[d][i].chunk_index
                           # db_knowledge_points[d][j].chunk_index
    /\ call.op = "create_manual" =>
          LET rows == db_knowledge_points[call.d]
          IN  \A k \in IndicesOf(call.before) : rows[Len(rows)].chunk_index > k

\* The savers of the corpus of "global_knowledge_base", oldest first.
GlobalSavers ==
    LET s == SelectSeq(saved, LAMBDA e : e[2] = Global)
    IN  [j \in 1..Len(s) |-> s[j][1]]

RaceDone == \A d \in Docs : ingest[d].phase = "done"

PointIds(d) == {ChunkId(d, i - 1) : i \in 1..Len(DocChunks(d))}

CorpusIds(c) == {bm25[c].ids[j] : j \in 1..Len(bm25[c].ids)}

VectorIds(c) == {vstore[c][j].id : j \in 1..Len(vstore[c])}

\* The writer that saved second had loaded before the first one saved.
StaleSave == ingest[GlobalSavers[2]].seen = 0

\* C13: when two ingestions have added to "global_knowledge_base" side by
\* side, the vector index holds the points of both; the corpus holds the
\* points of the writer that saved last, and if that writer loaded before
\* the other one saved, the corpus holds none of the other one's points
\* (they stay in the vector index only); otherwise it holds them all.
C13_LostCorpusUpdate ==
    RaceDone =>
        LET first == GlobalSavers[1]
            second == GlobalSavers[2]
        IN  /\ Len(GlobalSavers) = 2
            /\ PointIds(first) \cup PointIds(second) \subseteq VectorIds(Global)
            /\ PointIds(second) \subseteq CorpusIds(Global)
            /\ IF StaleSave
               THEN PointIds(first) \cap CorpusIds(Global) = {}
               ELSE PointIds(first) \subseteq CorpusIds(Global)

C13_Witness ==
    /\ RaceDone
    /\ StaleSave
    /\ PointIds(GlobalSavers[1]) \subseteq VectorIds(Global)
    /\ PointIds(GlobalSavers[1]) \cap CorpusIds(Global) = {}

\* C14: with hybrid mode on, rank_bm25 installed and no failing call, after
\* any sequence of add_to_vector_store and delete_document calls the ids of
\* the vector index of a collection are the ids of its lexical corpus.
C14_IndexCorpusSameIds ==
    \A c \in CollNames : VectorIds(c) = CorpusIds(c)

C14_Witness ==
    /\ call.op = "delete_document"
    /\ VectorIds(call.c) # {}
    /\ VectorIds(call.c) = CorpusIds(call.c)
    /\ \E c \in CollNames : c # call.c /\ VectorIds(c) # {}

EntriesOf(c, store) == {store[c][j] : j \in 1..Len(store[c])}

\* C18: a delete_chunks(d, chunk_indices) call leaves the lexical corpus of
\* every collection as it was; of the vector index it takes entries of
\* "doc_{d}" with the ids "{d}_chunk_i" named, all of them (given a client
\* and the collection), and no other entry of any collection.
C18_DeleteChunksFrame ==
    [][call'.op = "delete_chunks" =>
          LET d == call'.d
              named == {ChunkId(d, i) : i \in call'.indices}
          IN  /\ bm25' = bm25
              /\ \A c \in CollNames :
                    /\ EntriesOf(c, vstore') \subseteq EntriesOf(c, vstore)
                    /\ \A e \in EntriesOf(c, vstore) \ EntriesOf(c, vstore') :
                          c = DocColl(d) /\ e.id \in named
              /\ (chromadb /\ DocColl(d) \in vcolls)
                    => \A e \in EntriesOf(DocColl(d), vstore') : e.id \notin named]_vars

\* A chunk deleted from the vector index of its document is still in the
\* lexical corpus of that collection.
C18_Witness ==
    /\ call.op = "delete_chunks"
    /\ chromadb
    /\ \E i \in call.indices :
          /\ ChunkId(call.d, i) \in CorpusIds(DocColl(call.d))
          /\ ChunkId(call.d, i) \notin VectorIds(DocColl(call.d))
    /\ VectorIds(DocColl(call.d)) # {}

Positive(scores) == {i \in 1..Len(scores) : scores[i] > 0}

\* C19: the lexical list holds corpus entries of strictly positive score
\* only, each once, in descending score order, min(fetch_k, number of
\* positive entries) of them and none scored below an entry left out; it is
\* the list got by dropping the non-positive entries first and taking the
\* first fetch_k afterwards (fetch_k = max(2 * n_results, 10)).
C19_LexicalList ==
    lex_pc = "done" =>
        LET k == Max(2 * lex_n, 10)
            pos == Positive(bm25_scores)
            hit == {lex_hits[j] : j \in 1..Len(lex_hits)}
        IN  /\ hit \subseteq pos
            /\ Cardinality(hit) = Len(lex_hits)
            /\ Len(lex_hits) = Min(k, Cardinality(pos))
            /\ \A j \in 1..(Len(lex_hits) - 1) :
                  bm25_scores[lex_hits[j]] >= bm25_scores[lex_hits[j + 1]]
            /\ \A i \in pos \ hit : \A h \in hit : bm25_scores[h] >= bm25_scores[i]
            /\ lex_hits =
                  PyPrefix(SelectSeq(SortedByScore(bm25_scores),
                                     LAMBDA i : bm25_scores[i] > 0), k)

\* More positive entries than fetch_k: the cut binds.
C19_Witness ==
    /\ lex_pc = "done"
    /\ Cardinality(Positive(bm25_scores)) > Max(2 * lex_n, 10)
    /\ Len(lex_hits) = Max(2 * lex_n, 10)
    /\ \E i, j \in Positive(bm25_scores) : bm25_scores[i] # bm25_scores[j]

\* C20 as stated: the vector index is asked for fetch_k entries, fetch_k
\* being max(2 * n_results, 10) in hybrid mode and n_results otherwise.
C20_QueriedWithFetchK ==
    (Searched /\ chromadb) => call.queried = <<SpecFetchK>>

\* C20 as amended: with a client, the vector index is asked for
\* min(fetch_k, 100) entries, fetch_k being max(2 * n_results, 10) in hybrid
\* mode and n_results otherwise; the lexical list, when the call ranks the
\* corpus, is cut at fetch_k itself.
C20_QueriedWithCappedFetchK ==
    (Searched /\ chromadb) =>
        /\ call.queried = <<Min(SpecFetchK, 100)>>
        /\ call.lex_cut \in {<<>>, <<SpecFetchK>>}
        /\ (HybridApplies /\ call.fault = "none") => call.lex_cut = <<SpecFetchK>>

\* A hybrid search whose fetch_k is above 100: 100 asked of the vector
\* index, the lexical list cut at fetch_k.
C20_Witness ==
    /\ Searched /\ chromadb /\ HybridApplies
    /\ SpecFetchK > 100
    /\ call.queried = <<100>>
    /\ call.lex_cut = <<SpecFetchK>>
    /\ ret # <<>>

\* 1-based positions of the sentence ends ('.' or newline) of a window.
Terminators(w) == {i \in 1..Len(w) : w[i] \in {".", "\n"}}

LastTerminator(w) == CHOOSE i \in Terminators(w) : \A j \in Terminators(w) : j <= i

\* C21: for valid (chunk_size, overlap), a chunk appended before the last
\* one is its window cut right after the window's last '.' or newline when
\* the 0-based offset of that character is above chunk_size * 0.5, and is
\* of length chunk_size exactly otherwise.
C21_CutPoints ==
    [][(split_pc = "loop" /\ split_pc' = "loop" /\ ValidSplitArgs) =>
          LET w == PySlice(text, start, start + chunk_size)
              c == chunks'[Len(chunks')]
          IN  IF Terminators(w) # {} /\ 2 * (LastTerminator(w) - 1) > chunk_size
              THEN c = SubSeq(w, 1, LastTerminator(w))
              ELSE Len(c) = chunk_size]_vars

\* C22: of a non-empty text, with valid (chunk_size, overlap), every chunk
\* made so far, the last one included, is non-empty and no longer than
\* chunk_size.
C22_ChunksBounded ==
    (text # <<>> /\ ValidSplitArgs) =>
        \A i \in 1..Len(chunks) : chunks[i] # <<>> /\ Len(chunks[i]) <= chunk_size

Configured == rag_config # <<>>

\* round(chunk_size / 5); a fifth is never halfway between two integers.
RoundedFifth(size) == (2 * size + 5) \div 10

\* C23 as stated: the overlap RAGService makes of its configuration is
\* round(chunk_size / 5).
C23_OverlapIsRoundedFifth ==
    Configured => overlap = RoundedFifth(chunk_size)

\* C23 as amended: the overlap RAGService makes of its configuration is
\* the fifth of chunk_size rounded down, and 0 for a negative chunk_size.
C23_OverlapIsFloorFifth ==
    Configured =>
        /\ overlap >= 0
        /\ chunk_size >= 0 => (5 * overlap <= chunk_size /\ chunk_size < 5 * overlap + 5)
        /\ chunk_size < 0 => overlap = 0

\* A configured chunk size whose fifth rounds up, and a text split by it.
C23_Witness ==
    /\ Configured
    /\ split_pc = "done"
    /\ Len(chunks) > 1
    /\ RoundedFifth(chunk_size) > overlap
    /\ overlap > 0

\* C24: a search_similar call leaves the vector index (the entries and the
\* set of collections that exist) and every lexical corpus as they were.
C24_SearchStateless ==
    [][call'.op = "search" => UNCHANGED indexVars]_vars

\* C25: whatever n_results is, zero or negative included, and in every
\* mode, search_similar returns at most max(n_results, 0) entries.
C25_AtMostNResults ==
    Searched => Len(ret) <= Max(call.n, 0)

\* The ids of the points of every document but d.
OtherIds(d) == UNION {PointIds(e) : e \in Docs \ {d}}

\* The entries of a corpus as <<id, text>> pairs, in order.
CorpusPairs(corpus) ==
    [j \in 1..Len(corpus.ids) |-> <<corpus.ids[j], corpus.documents[j]>>]

\* C26: a delete_document(d, c) call leaves the vector index and the
\* lexical corpus of every other collection as they were, and in c it
\* leaves every entry of every other document in place, in the vector
\* index and in the corpus, also when str(d) is a prefix of the other id.
C26_DeleteDocumentFrame ==
    [][call'.op = "delete_document" =>
          LET d == call'.d
              c == call'.c
              other(id) == id \in OtherIds(d)
          IN  /\ \A x \in CollNames \ {c} : vstore'[x] = vstore[x] /\ bm25'[x] = bm25[x]
              /\ SelectSeq(vstore'[c], LAMBDA e : other(e.id))
                    = SelectSeq(vstore[c], LAMBDA e : other(e.id))
              /\ SelectSeq(CorpusPairs(bm25'[c]), LAMBDA p : other(p[1]))
                    = SelectSeq(CorpusPairs(bm25[c]), LAMBDA p : other(p[1]))]_vars

\* Document 1 deleted from "global_knowledge_base", which keeps the points
\* of document 11 in the vector index and in the corpus; "doc_11" holds them.
C26_Witness ==
    /\ call.op = "delete_document" /\ call.d = 1
    /\ chromadb /\ useHybrid /\ BM25Okapi
    /\ PointIds(11) \subseteq VectorIds(call.c)
    /\ PointIds(11) \subseteq CorpusIds(call.c)
    /\ PointIds(1) \cap (VectorIds(call.c) \cup CorpusIds(call.c)) = {}
    /\ PointIds(11) \subseteq VectorIds(DocColl(11))
    /\ call.c = Global

\* C27: once the batch-delete endpoint has removed knowledge points, no
\* search over "global_knowledge_base" returns an entry "{d}_chunk_{i}" of
\* a removed point.
C27_BatchDeleteUnsearchable ==
    call.op = "delete_batch" =>
        \A q \in Words, n \in NResults :
            LET found == search_similar(Index, q, Global, n, "none").result
            IN  \A j \in 1..Len(found) : found[j].id \notin call.deleted

Deleted(d) == ingest[d].phase = "deleted"

Ingested(d) == ingest[d].phase = "done"

\* C28: in hybrid mode, once the deletion of document d and the ingestion
\* of document e, run side by side, have both ended, the corpus of
\* "global_knowledge_base" holds no id of d and every id of e.
C28_DeleteBesideAdd ==
    (useHybrid /\ BM25Okapi) =>
        \A d, e \in Docs :
            (Deleted(d) /\ Ingested(e)) =>
                /\ PointIds(d) \cap CorpusIds(Global) = {}
                /\ PointIds(e) \subseteq CorpusIds(Global)

\* The text that structure_document gives the point of an id.
ContentOf(id) ==
    LET d == CHOOSE e \in Docs : id \in PointIds(e)
        i == CHOOSE k \in 1..Len(DocChunks(d)) : id = ChunkId(d, k - 1)
    IN  DocChunks(d)[i]

\* C29: whatever the interleaving of the loads and saves of adds and
\* deletes, the corpus file of every collection holds as many documents as
\* ids, and documents[i] is the text that was added with ids[i].
C29_CorpusAligned ==
    \A c \in CollNames :
        /\ Len(bm25[c].ids) = Len(bm25[c].documents)
        /\ \A i \in 1..Len(bm25[c].ids) :
              /\ \E d \in Docs : bm25[c].ids[i] \in PointIds(d)
              /\ bm25[c].documents[i] = ContentOf(bm25[c].ids[i])

\* An add saved, after a delete, the corpus that it had loaded before the
\* delete saved: the file holds the entries of both documents.
C29_Witness ==
    /\ Len(GlobalSavers) = 2
    /\ Deleted(GlobalSavers[1])
    /\ Ingested(GlobalSavers[2])
    /\ StaleSave
    /\ PointIds(GlobalSavers[1]) \cup PointIds(GlobalSavers[2]) \subseteq CorpusIds(Global)


\* The parts of C30
TaskSettles(d) ==
    (db_documents[d] = "processing") ~> (db_documents[d] \in {"completed", "failed"})
TaskEndedSettled(d) ==
    ingest[d].phase = "ended" => db_documents[d] \in {"completed", "failed"}
CompletedIsCommitted(d) ==
    db_documents[d] = "completed" =>
        /\ db_processed[d]
        /\ db_knowledge_points[d] = KnowledgePointRows(ingest[d].kps)

\* C30: once its background task has set a document "processing", the status
\* eventually becomes "completed" or "failed"; a task that has ended has not
\* left it "pending" or "processing"; and "completed" is reached only with
\* processed = true and the rows of the generated knowledge points committed.
C30_TaskSettles ==
    \A d \in Docs :
        /\ TaskSettles(d)
        /\ [](TaskEndedSettled(d) /\ CompletedIsCommitted(d))

====
